---- MODULE Spec2Model ----
(***************************************************************************)
(* Model of src/voting_with_delegation.py: the VotingWithDelegation ledger *)
(* (voter weights, delegation edges, nonces, proposals) and its handlers.  *)
(* Python dicts are functions whose DOMAIN is the set of keys present.     *)
(* Addresses are already canonical (to_checksum_address is idempotent on   *)
(* them), time.time() is the variable now, read once per call.             *)
(***************************************************************************)
EXTENDS Integers, FiniteSets, Sequences, TLC

\* ---------------------------------------------------------------- bounds
MaxCalls == 4
MaxTime == 2
MaxNonce == 1

\* ---------------------------------------------------------------- inputs
Addresses == {"A", "B", "C"}
Weights == {-1, 0, 50, 100}
ProposalIds == {"P"}
ChoiceInputs == {"yes", "no", "abstain", "maybe"}
Deadlines == {1}
ClosingTimes == {0, 1}
NonceInputs == 0 .. MaxNonce

\* ---------------------------------------------------------------- dict helpers
EmptyDict == [x \in {} |-> 0]

Put(d, k, v) == [x \in (DOMAIN d) \cup {k} |-> IF x = k THEN v ELSE d[x]]

Pop(d, k) == [x \in (DOMAIN d) \ {k} |-> d[x]]

Get(d, k, default) == IF k \in DOMAIN d THEN d[k] ELSE default

\* ---------------------------------------------------------------- signatures
\* A signature is the pair (signing account, statement signed); recovery over
\* a different statement yields an address unrelated to every account.
DelegationMessage(delegator, delegatee, nonce, deadline) ==
    [delegator |-> delegator, delegatee |-> delegatee,
     nonce |-> nonce, deadline |-> deadline]

Sign(signer, msg) == [signer |-> signer, msg |-> msg]

\* bytes that are no signature at all: recovery raises
Malformed == Sign("none", DelegationMessage("none", "none", 0, 0))

\* variant: any well-formed signature is taken to be the stated delegator's
recover_delegator_trusting(msg, signature) ==
    IF signature = Malformed THEN "error" ELSE msg.delegator

recover_delegator(msg, signature) ==
    IF signature = Malformed THEN "error"
    ELSE IF signature.msg = msg THEN signature.signer
    ELSE "unrelated"

\* ---------------------------------------------------------------- delegation graph
RECURSIVE CycleWalk(_, _, _, _)
CycleWalk(dg, start, current, seen) ==
    IF current \notin DOMAIN dg THEN FALSE
    ELSE IF current \in seen THEN TRUE
    ELSE IF dg[current] = start THEN TRUE
    ELSE CycleWalk(dg, start, dg[current], seen \cup {current})

\* variant: the walk relies on its seen set alone, never comparing with start
RECURSIVE CycleWalkSeenOnly(_, _, _)
CycleWalkSeenOnly(dg, current, seen) ==
    IF current \notin DOMAIN dg THEN FALSE
    ELSE IF current \in seen THEN TRUE
    ELSE CycleWalkSeenOnly(dg, dg[current], seen \cup {current})

would_create_cycle_seen_only(dg, start, next_hop) == CycleWalkSeenOnly(dg, next_hop, {})

\* variant: only the first hop is compared with start, the walk is not continued
would_create_cycle_direct_only(dg, start, next_hop) ==
    next_hop \in DOMAIN dg /\ dg[next_hop] = start

would_create_cycle(dg, start, next_hop) == CycleWalk(dg, start, next_hop, {})

\* variant: the edge is written before the cycle check
set_delegate_commit_first(dg, delegator, delegatee) ==
    IF delegator = delegatee THEN [ok |-> TRUE, delegate_of |-> Pop(dg, delegator)]
    ELSE [ok |-> ~would_create_cycle(dg, delegator, delegatee),
          delegate_of |-> Put(dg, delegator, delegatee)]

\* variant: self-delegation returns without removing the edge
set_delegate_keep_self(dg, delegator, delegatee) ==
    IF delegator = delegatee THEN [ok |-> TRUE, delegate_of |-> dg]
    ELSE IF would_create_cycle(dg, delegator, delegatee)
         THEN [ok |-> FALSE, delegate_of |-> dg]
         ELSE [ok |-> TRUE, delegate_of |-> Put(dg, delegator, delegatee)]

\* result: ok = FALSE when the ValueError "would create a cycle" is raised
set_delegate(dg, delegator, delegatee) ==
    IF delegator = delegatee THEN [ok |-> TRUE, delegate_of |-> Pop(dg, delegator)]
    ELSE IF would_create_cycle(dg, delegator, delegatee)
         THEN [ok |-> FALSE, delegate_of |-> dg]
         ELSE [ok |-> TRUE, delegate_of |-> Put(dg, delegator, delegatee)]

\* the walk of _resolve_final_delegate: <<terminal address, edges followed>>
RECURSIVE ResolveWalk(_, _, _, _)
ResolveWalk(dg, current, seen, steps) ==
    IF current \notin DOMAIN dg THEN <<current, steps>>
    ELSE IF current \in seen THEN <<current, steps>>
    ELSE ResolveWalk(dg, dg[current], seen \cup {current}, steps + 1)

\* variant: a single edge is followed instead of the whole chain
resolve_final_delegate_one_hop(dg, addr) == Get(dg, addr, addr)

resolve_final_delegate(dg, addr) == ResolveWalk(dg, addr, {}, 0)[1]

ResolveSteps(dg, addr) == ResolveWalk(dg, addr, {}, 0)[2]

\* ---------------------------------------------------------------- power aggregation
RECURSIVE PowerFold(_, _, _, _)
PowerFold(vw, dg, todo, power) ==
    IF todo = {} THEN power
    ELSE LET voter == CHOOSE v \in todo : TRUE
             final_holder == resolve_final_delegate(dg, voter)
         IN IF vw[voter] = 0
            THEN PowerFold(vw, dg, todo \ {voter}, power)
            ELSE PowerFold(vw, dg, todo \ {voter},
                           Put(power, final_holder, Get(power, final_holder, 0) + vw[voter]))

\* variant: the bucket is assigned instead of accumulated
RECURSIVE PowerFoldOverwrite(_, _, _, _)
PowerFoldOverwrite(vw, dg, todo, power) ==
    IF todo = {} THEN power
    ELSE LET voter == CHOOSE v \in todo : TRUE
             final_holder == resolve_final_delegate(dg, voter)
         IN IF vw[voter] = 0
            THEN PowerFoldOverwrite(vw, dg, todo \ {voter}, power)
            ELSE PowerFoldOverwrite(vw, dg, todo \ {voter},
                                    Put(power, final_holder, vw[voter]))

get_effective_voting_power_map_overwrite(vw, dg) ==
    PowerFoldOverwrite(vw, dg, DOMAIN vw, EmptyDict)

\* variant: voters of weight 0 are aggregated like the others
RECURSIVE PowerFoldNoSkip(_, _, _, _)
PowerFoldNoSkip(vw, dg, todo, power) ==
    IF todo = {} THEN power
    ELSE LET voter == CHOOSE v \in todo : TRUE
             final_holder == resolve_final_delegate(dg, voter)
         IN PowerFoldNoSkip(vw, dg, todo \ {voter},
                            Put(power, final_holder, Get(power, final_holder, 0) + vw[voter]))

get_effective_voting_power_map_no_skip(vw, dg) ==
    PowerFoldNoSkip(vw, dg, DOMAIN vw, EmptyDict)

get_effective_voting_power_map(vw, dg) == PowerFold(vw, dg, DOMAIN vw, EmptyDict)

\* variant: the bucket of the address itself, without resolving its final delegate
get_effective_voting_power_direct(vw, dg, address) ==
    Get(get_effective_voting_power_map(vw, dg), address, 0)

get_effective_voting_power(vw, dg, address) ==
    Get(get_effective_voting_power_map(vw, dg), resolve_final_delegate(dg, address), 0)

\* ---------------------------------------------------------------- handlers (pure part)
\* variant: the nonce entry is written on every call
add_voter_reset(vw, nonces, addr, weight) ==
    IF weight < 0
    THEN [result |-> "InvalidWeight", voter_weight |-> vw, nonce_of |-> nonces]
    ELSE [result |-> "ok",
          voter_weight |-> Put(vw, addr, weight),
          nonce_of |-> Put(nonces, addr, 0)]

add_voter(vw, nonces, addr, weight) ==
    IF weight < 0
    THEN [result |-> "InvalidWeight", voter_weight |-> vw, nonce_of |-> nonces]
    ELSE [result |-> "ok",
          voter_weight |-> Put(vw, addr, weight),
          nonce_of |-> IF addr \notin DOMAIN nonces THEN Put(nonces, addr, 0) ELSE nonces]

get_nonce(nonces, delegator) == Get(nonces, delegator, 0)

build_delegation_message(nonces, delegator, delegatee, deadline) ==
    DelegationMessage(delegator, delegatee, get_nonce(nonces, delegator), deadline)

\* variant: any nonce up to the counter passes
nonce_accepted_stale(nonce, expected_nonce) == nonce <= expected_nonce

\* line 123: the statement's nonce against the delegator's counter
nonce_accepted(nonce, expected_nonce) == nonce = expected_nonce

\* variant: the counter is written back without the increment
advance_nonce_same(nonces, delegator, expected_nonce) ==
    Put(nonces, delegator, expected_nonce)

\* line 131: the counter after an accepted update
advance_nonce(nonces, delegator, expected_nonce) ==
    Put(nonces, delegator, expected_nonce + 1)

\* variant: the nonce is checked before the deadline
apply_delegation_signature_nonce_first(dg, nonces, t, signature, delegator, delegatee, nonce, deadline) ==
    LET msg == DelegationMessage(delegator, delegatee, nonce, deadline)
        expected_nonce == get_nonce(nonces, delegator)
        recovered == recover_delegator(msg, signature)
        sd == set_delegate(dg, delegator, delegatee)
        fail(e) == [result |-> e, delegate_of |-> dg, nonce_of |-> nonces]
    IN IF ~nonce_accepted(nonce, expected_nonce) THEN fail("NonceMismatch")
       ELSE IF t > deadline THEN fail("Expired")
       ELSE IF recovered = "error" THEN fail("SignatureInvalid")
       ELSE IF recovered # delegator THEN fail("NotDelegator")
       ELSE IF ~sd.ok
       THEN [result |-> "CycleDetected", delegate_of |-> sd.delegate_of, nonce_of |-> nonces]
       ELSE [result |-> "ok", delegate_of |-> sd.delegate_of,
             nonce_of |-> advance_nonce(nonces, delegator, expected_nonce)]

\* _set_delegate works on the ledger in place: when it raises, the edges are
\* whatever it left behind (sd.delegate_of), and line 131 is not reached.
apply_delegation_signature(dg, nonces, t, signature, delegator, delegatee, nonce, deadline) ==
    LET msg == DelegationMessage(delegator, delegatee, nonce, deadline)
        expected_nonce == get_nonce(nonces, delegator)
        recovered == recover_delegator(msg, signature)
        sd == set_delegate(dg, delegator, delegatee)
        fail(e) == [result |-> e, delegate_of |-> dg, nonce_of |-> nonces]
    IN IF t > deadline THEN fail("Expired")
       ELSE IF ~nonce_accepted(nonce, expected_nonce) THEN fail("NonceMismatch")
       ELSE IF recovered = "error" THEN fail("SignatureInvalid")
       ELSE IF recovered # delegator THEN fail("NotDelegator")
       ELSE IF ~sd.ok
       THEN [result |-> "CycleDetected", delegate_of |-> sd.delegate_of, nonce_of |-> nonces]
       ELSE [result |-> "ok", delegate_of |-> sd.delegate_of,
             nonce_of |-> advance_nonce(nonces, delegator, expected_nonce)]

ZeroTallies == [c \in {"yes", "no", "abstain"} |-> 0]

\* variant: a closing time equal to the current time is let through
create_proposal_allow_now(props, t, proposal_id, closes_at) ==
    IF proposal_id \in DOMAIN props
    THEN [result |-> "DuplicateProposal", proposals |-> props]
    ELSE IF closes_at < t
    THEN [result |-> "InvalidClosingTime", proposals |-> props]
    ELSE [result |-> "ok",
          proposals |-> Put(props, proposal_id,
                            [closes_at |-> closes_at, tallies |-> ZeroTallies, voted |-> {}])]

create_proposal(props, t, proposal_id, closes_at) ==
    IF proposal_id \in DOMAIN props
    THEN [result |-> "DuplicateProposal", proposals |-> props]
    ELSE IF closes_at <= t
    THEN [result |-> "InvalidClosingTime", proposals |-> props]
    ELSE [result |-> "ok",
          proposals |-> Put(props, proposal_id,
                            [closes_at |-> closes_at, tallies |-> ZeroTallies, voted |-> {}])]

\* variant: the comparison of voter and final holder is missing
vote_checks_no_delegation(props, vw, dg, t, proposal_id, voter, choice) ==
    IF proposal_id \notin DOMAIN props THEN "UnknownProposal"
    ELSE IF choice \notin {"yes", "no", "abstain"} THEN "InvalidChoice"
    ELSE LET prop == props[proposal_id]
             final_holder == resolve_final_delegate(dg, voter)
             weight == Get(get_effective_voting_power_map(vw, dg), final_holder, 0)
         IN IF t > prop.closes_at THEN "VotingClosed"
            ELSE IF final_holder \in prop.voted THEN "AlreadyVoted"
            ELSE IF weight <= 0 THEN "NoVotingPower"
            ELSE "ok"

\* variant: the voted-set is not consulted
vote_checks_no_voted(props, vw, dg, t, proposal_id, voter, choice) ==
    IF proposal_id \notin DOMAIN props THEN "UnknownProposal"
    ELSE IF choice \notin {"yes", "no", "abstain"} THEN "InvalidChoice"
    ELSE LET prop == props[proposal_id]
             final_holder == resolve_final_delegate(dg, voter)
             weight == Get(get_effective_voting_power_map(vw, dg), final_holder, 0)
         IN IF t > prop.closes_at THEN "VotingClosed"
            ELSE IF voter # final_holder THEN "DelegatedVoterCannotVote"
            ELSE IF weight <= 0 THEN "NoVotingPower"
            ELSE "ok"

\* variant: voting closes already at the closing time itself
vote_checks_closed_at_boundary(props, vw, dg, t, proposal_id, voter, choice) ==
    IF proposal_id \notin DOMAIN props THEN "UnknownProposal"
    ELSE IF choice \notin {"yes", "no", "abstain"} THEN "InvalidChoice"
    ELSE LET prop == props[proposal_id]
             final_holder == resolve_final_delegate(dg, voter)
             weight == Get(get_effective_voting_power_map(vw, dg), final_holder, 0)
         IN IF t >= prop.closes_at THEN "VotingClosed"
            ELSE IF voter # final_holder THEN "DelegatedVoterCannotVote"
            ELSE IF final_holder \in prop.voted THEN "AlreadyVoted"
            ELSE IF weight <= 0 THEN "NoVotingPower"
            ELSE "ok"

\* lines 199-219: the checks of vote in order, "ok" when none raises
vote_checks(props, vw, dg, t, proposal_id, voter, choice) ==
    IF proposal_id \notin DOMAIN props THEN "UnknownProposal"
    ELSE IF choice \notin {"yes", "no", "abstain"} THEN "InvalidChoice"
    ELSE LET prop == props[proposal_id]
             final_holder == resolve_final_delegate(dg, voter)
             weight == Get(get_effective_voting_power_map(vw, dg), final_holder, 0)
         IN IF t > prop.closes_at THEN "VotingClosed"
            ELSE IF voter # final_holder THEN "DelegatedVoterCannotVote"
            ELSE IF final_holder \in prop.voted THEN "AlreadyVoted"
            ELSE IF weight <= 0 THEN "NoVotingPower"
            ELSE "ok"

\* variant: the voter's own weight is tallied instead of its effective power
vote_own_weight(props, vw, dg, t, proposal_id, voter, choice) ==
    LET checked == vote_checks(props, vw, dg, t, proposal_id, voter, choice)
    IN IF checked # "ok"
       THEN [result |-> checked, proposals |-> props, weight |-> 0, snapshot |-> ZeroTallies]
       ELSE LET prop == props[proposal_id]
                final_holder == resolve_final_delegate(dg, voter)
                weight == Get(vw, final_holder, 0)
                tallies == [prop.tallies EXCEPT ![choice] = @ + weight]
            IN [result |-> "ok",
                proposals |-> [props EXCEPT ![proposal_id] =
                                 [closes_at |-> prop.closes_at,
                                  tallies |-> tallies,
                                  voted |-> prop.voted \cup {final_holder}]],
                weight |-> weight, snapshot |-> tallies]

vote(props, vw, dg, t, proposal_id, voter, choice) ==
    LET checked == vote_checks(props, vw, dg, t, proposal_id, voter, choice)
    IN IF checked # "ok"
       THEN [result |-> checked, proposals |-> props, weight |-> 0, snapshot |-> ZeroTallies]
       ELSE LET prop == props[proposal_id]
                final_holder == resolve_final_delegate(dg, voter)
                weight == Get(get_effective_voting_power_map(vw, dg), final_holder, 0)
                tallies == [prop.tallies EXCEPT ![choice] = @ + weight]
            IN [result |-> "ok",
                proposals |-> [props EXCEPT ![proposal_id] =
                                 [closes_at |-> prop.closes_at,
                                  tallies |-> tallies,
                                  voted |-> prop.voted \cup {final_holder}]],
                weight |-> weight, snapshot |-> tallies]

get_results(props, proposal_id) == props[proposal_id].tallies

is_open(props, t, proposal_id) == t <= props[proposal_id].closes_at

\* ---------------------------------------------------------------- state
VARIABLES voter_weight, delegate_of, nonce_of, proposals, now, calls, last,
          acceptedStatements, castVotes

ledger == <<voter_weight, delegate_of, nonce_of, proposals>>
vars == <<voter_weight, delegate_of, nonce_of, proposals, now, calls, last,
          acceptedStatements, castVotes>>

\* no call in flight: the previous call has returned or raised to its caller
Idle == [op |-> "idle", result |-> "ok"]

Init ==
    /\ voter_weight = EmptyDict
    /\ delegate_of = EmptyDict
    /\ nonce_of = EmptyDict
    /\ proposals = EmptyDict
    /\ now = 0
    /\ calls = 0
    /\ last = Idle
    /\ acceptedStatements = {}
    /\ castVotes = {}

Tick ==
    /\ last = Idle
    /\ now < MaxTime
    /\ now' = now + 1
    /\ UNCHANGED <<ledger, calls, last, acceptedStatements, castVotes>>

\* the call recorded in last hands its result (or its error) to the caller
Return ==
    /\ last # Idle
    /\ last' = Idle
    /\ UNCHANGED <<ledger, now, calls, acceptedStatements, castVotes>>

AddVoter ==
    \E addr \in Addresses, weight \in Weights :
        LET r == add_voter(voter_weight, nonce_of, addr, weight)
        IN /\ last = Idle
           /\ calls < MaxCalls
           /\ calls' = calls + 1
           /\ voter_weight' = r.voter_weight
           /\ nonce_of' = r.nonce_of
           /\ last' = [op |-> "add_voter", result |-> r.result,
                       address |-> addr, weight |-> weight]
           /\ UNCHANGED <<delegate_of, proposals, now, acceptedStatements, castVotes>>

SignatureInputs(msg) ==
    {Sign(msg.delegator, msg), Sign(msg.delegatee, msg),
     Sign(msg.delegator, [msg EXCEPT !.nonce = msg.nonce + 1]), Malformed}

ApplyDelegationSignature ==
    \E delegator \in Addresses, delegatee \in Addresses,
       nonce \in NonceInputs, deadline \in Deadlines :
      \E signature \in SignatureInputs(DelegationMessage(delegator, delegatee, nonce, deadline)) :
        LET r == apply_delegation_signature(delegate_of, nonce_of, now, signature,
                                            delegator, delegatee, nonce, deadline)
        IN /\ last = Idle
           /\ calls < MaxCalls
           /\ calls' = calls + 1
           /\ delegate_of' = r.delegate_of
           /\ nonce_of' = r.nonce_of
           /\ last' = [op |-> "apply_delegation_signature", result |-> r.result,
                       delegator |-> delegator, delegatee |-> delegatee,
                       nonce |-> nonce, deadline |-> deadline,
                       prior |-> Get(delegate_of, delegator, "none"),
                       signer |-> signature.signer,
                       sameStatement |-> (signature.msg =
                           DelegationMessage(delegator, delegatee, nonce, deadline))]
           /\ acceptedStatements' =
                 IF r.result = "ok"
                 THEN acceptedStatements \cup {<<delegator, nonce>>}
                 ELSE acceptedStatements
           /\ UNCHANGED <<voter_weight, proposals, now, castVotes>>

CreateProposal ==
    \E proposal_id \in ProposalIds, closes_at \in ClosingTimes :
        LET r == create_proposal(proposals, now, proposal_id, closes_at)
        IN /\ last = Idle
           /\ calls < MaxCalls
           /\ calls' = calls + 1
           /\ proposals' = r.proposals
           /\ last' = [op |-> "create_proposal", result |-> r.result,
                       proposal_id |-> proposal_id, closes_at |-> closes_at]
           /\ UNCHANGED <<voter_weight, delegate_of, nonce_of, now,
                          acceptedStatements, castVotes>>

Vote ==
    \E proposal_id \in ProposalIds, voter \in Addresses, choice \in ChoiceInputs :
        LET r == vote(proposals, voter_weight, delegate_of, now, proposal_id, voter, choice)
        IN /\ last = Idle
           /\ calls < MaxCalls
           /\ calls' = calls + 1
           /\ proposals' = r.proposals
           /\ last' = [op |-> "vote", result |-> r.result,
                       proposal_id |-> proposal_id, voter |-> voter, choice |-> choice,
                       weight |-> r.weight, snapshot |-> r.snapshot]
           /\ castVotes' =
                 IF r.result = "ok" THEN castVotes \cup {<<proposal_id, voter>>}
                 ELSE castVotes
           /\ UNCHANGED <<voter_weight, delegate_of, nonce_of, now, acceptedStatements>>

Next == Tick \/ Return \/ AddVoter \/ ApplyDelegationSignature \/ CreateProposal \/ Vote

Spec == Init /\ [][Next]_vars

\* ---------------------------------------------------------------- an election
\* The same handlers driven as one election between two holders: the weights
\* are registered before the proposal is created and stay as they are while
\* it exists; delegation updates and votes interleave freely.
MaxElectionCalls == 5

ElectionAddresses == {"A", "B"}
ElectionWeights == {50, 100}

ElectionAddVoter ==
    \E addr \in ElectionAddresses, weight \in ElectionWeights :
        LET r == add_voter(voter_weight, nonce_of, addr, weight)
        IN /\ last = Idle
           /\ calls < MaxElectionCalls
           /\ proposals = EmptyDict
           /\ calls' = calls + 1
           /\ voter_weight' = r.voter_weight
           /\ nonce_of' = r.nonce_of
           /\ last' = [op |-> "add_voter", result |-> r.result,
                       address |-> addr, weight |-> weight]
           /\ UNCHANGED <<delegate_of, proposals, now, acceptedStatements, castVotes>>

ElectionApplyDelegationSignature ==
    \E delegator \in ElectionAddresses, delegatee \in ElectionAddresses,
       nonce \in NonceInputs, deadline \in Deadlines :
      \E signature \in SignatureInputs(DelegationMessage(delegator, delegatee, nonce, deadline)) :
        LET r == apply_delegation_signature(delegate_of, nonce_of, now, signature,
                                            delegator, delegatee, nonce, deadline)
        IN /\ last = Idle
           /\ calls < MaxElectionCalls
           /\ calls' = calls + 1
           /\ delegate_of' = r.delegate_of
           /\ nonce_of' = r.nonce_of
           /\ last' = [op |-> "apply_delegation_signature", result |-> r.result,
                       delegator |-> delegator, delegatee |-> delegatee,
                       nonce |-> nonce, deadline |-> deadline,
                       prior |-> Get(delegate_of, delegator, "none"),
                       signer |-> signature.signer,
                       sameStatement |-> (signature.msg =
                           DelegationMessage(delegator, delegatee, nonce, deadline))]
           /\ acceptedStatements' =
                 IF r.result = "ok"
                 THEN acceptedStatements \cup {<<delegator, nonce>>}
                 ELSE acceptedStatements
           /\ UNCHANGED <<voter_weight, proposals, now, castVotes>>

ElectionCreateProposal ==
    \E proposal_id \in ProposalIds, closes_at \in ClosingTimes :
        LET r == create_proposal(proposals, now, proposal_id, closes_at)
        IN /\ last = Idle
           /\ calls < MaxElectionCalls
           /\ calls' = calls + 1
           /\ proposals' = r.proposals
           /\ last' = [op |-> "create_proposal", result |-> r.result,
                       proposal_id |-> proposal_id, closes_at |-> closes_at]
           /\ UNCHANGED <<voter_weight, delegate_of, nonce_of, now,
                          acceptedStatements, castVotes>>

ElectionVote ==
    \E proposal_id \in ProposalIds, voter \in ElectionAddresses, choice \in ChoiceInputs :
        LET r == vote(proposals, voter_weight, delegate_of, now, proposal_id, voter, choice)
        IN /\ last = Idle
           /\ calls < MaxElectionCalls
           /\ calls' = calls + 1
           /\ proposals' = r.proposals
           /\ last' = [op |-> "vote", result |-> r.result,
                       proposal_id |-> proposal_id, voter |-> voter, choice |-> choice,
                       weight |-> r.weight, snapshot |-> r.snapshot]
           /\ castVotes' =
                 IF r.result = "ok" THEN castVotes \cup {<<proposal_id, voter>>}
                 ELSE castVotes
           /\ UNCHANGED <<voter_weight, delegate_of, nonce_of, now, acceptedStatements>>

NextElection ==
    \/ Tick
    \/ Return
    \/ ElectionAddVoter
    \/ ElectionApplyDelegationSignature
    \/ ElectionCreateProposal
    \/ ElectionVote

SpecElection == Init /\ [][NextElection]_vars

\* ---------------------------------------------------------------- two callers at once
\* The class holds no lock and starts no thread: two callers that enter vote
\* or apply_delegation_signature on the same ledger at once run the statements
\* of the two bodies interleaved. Each body is cut where it stops reading and
\* starts writing: the checks, then each write to the ledger. The cuts are
\* coarse (line 221 alone is a read followed by a write); finer cuts only add
\* interleavings.
ConcurrentCalls ==
    {[op |-> "vote", proposal_id |-> id, voter |-> v, choice |-> c] :
        id \in ProposalIds, v \in ElectionAddresses, c \in {"yes", "no"}}
    \cup
    {[op |-> "apply_delegation_signature", delegator |-> d, delegatee |-> e,
      nonce |-> n, deadline |-> dl] :
        d \in ElectionAddresses, e \in ElectionAddresses,
        n \in NonceInputs, dl \in Deadlines}

\* a caller at the start of the body, its local variable not yet assigned
Thread(call) == [call |-> call, pc |-> "check", result |-> "pending", local |-> 0]

LedgerRecord ==
    [voter_weight |-> voter_weight, delegate_of |-> delegate_of,
     nonce_of |-> nonce_of, proposals |-> proposals]

BothDone == \A i \in {1, 2} : last.threads[i].pc = "done"

\* lines 111-128: the checks of apply_delegation_signature before _set_delegate
apply_checks(nonces, t, signature, delegator, delegatee, nonce, deadline) ==
    LET msg == DelegationMessage(delegator, delegatee, nonce, deadline)
        recovered == recover_delegator(msg, signature)
    IN IF t > deadline THEN "Expired"
       ELSE IF ~nonce_accepted(nonce, get_nonce(nonces, delegator)) THEN "NonceMismatch"
       ELSE IF recovered = "error" THEN "SignatureInvalid"
       ELSE IF recovered # delegator THEN "NotDelegator"
       ELSE "ok"

SequentialReturn ==
    /\ last.op # "concurrent"
    /\ Return

BeginConcurrent ==
    \E c1 \in ConcurrentCalls, c2 \in ConcurrentCalls :
        /\ last = Idle
        /\ calls + 2 <= MaxElectionCalls
        /\ calls' = calls + 2
        /\ last' = [op |-> "concurrent", result |-> "pending",
                    threads |-> <<Thread(c1), Thread(c2)>>, start |-> LedgerRecord]
        /\ UNCHANGED <<ledger, now, acceptedStatements, castVotes>>

\* vote, lines 199-219: the checks; the weight stays in a local variable
VoteCheck ==
    \E i \in {1, 2} :
        /\ last.op = "concurrent"
        /\ last.threads[i].call.op = "vote"
        /\ last.threads[i].pc = "check"
        /\ LET c == last.threads[i].call
               checked == vote_checks(proposals, voter_weight, delegate_of, now,
                                      c.proposal_id, c.voter, c.choice)
               weight == get_effective_voting_power(voter_weight, delegate_of, c.voter)
           IN last' = [last EXCEPT !.threads[i] =
                         IF checked # "ok"
                         THEN [@ EXCEPT !.pc = "done", !.result = checked]
                         ELSE [@ EXCEPT !.pc = "tally", !.local = weight]]
        /\ UNCHANGED <<ledger, now, calls, acceptedStatements, castVotes>>

\* vote, line 221: prop.tallies[choice] += weight
VoteTally ==
    \E i \in {1, 2} :
        /\ last.op = "concurrent"
        /\ last.threads[i].call.op = "vote"
        /\ last.threads[i].pc = "tally"
        /\ LET c == last.threads[i].call
           IN proposals' = [proposals EXCEPT ![c.proposal_id].tallies[c.choice] =
                                                 @ + last.threads[i].local]
        /\ last' = [last EXCEPT !.threads[i].pc = "mark"]
        /\ UNCHANGED <<voter_weight, delegate_of, nonce_of, now, calls,
                       acceptedStatements, castVotes>>

\* vote, lines 222-223: prop.voted.add(final_holder), then the return
VoteMark ==
    \E i \in {1, 2} :
        /\ last.op = "concurrent"
        /\ last.threads[i].call.op = "vote"
        /\ last.threads[i].pc = "mark"
        /\ LET c == last.threads[i].call
           IN /\ proposals' = [proposals EXCEPT ![c.proposal_id].voted = @ \cup {c.voter}]
              /\ castVotes' = castVotes \cup {<<c.proposal_id, c.voter>>}
        /\ last' = [last EXCEPT !.threads[i].pc = "done", !.threads[i].result = "ok"]
        /\ UNCHANGED <<voter_weight, delegate_of, nonce_of, now, calls, acceptedStatements>>

\* apply_delegation_signature, lines 111-128: the checks; expected_nonce
\* stays in a local variable
ApplyCheck ==
    \E i \in {1, 2} :
        /\ last.op = "concurrent"
        /\ last.threads[i].call.op = "apply_delegation_signature"
        /\ last.threads[i].pc = "check"
        /\ LET c == last.threads[i].call
               msg == DelegationMessage(c.delegator, c.delegatee, c.nonce, c.deadline)
               checked == apply_checks(nonce_of, now, Sign(c.delegator, msg),
                                       c.delegator, c.delegatee, c.nonce, c.deadline)
           IN last' = [last EXCEPT !.threads[i] =
                         IF checked # "ok"
                         THEN [@ EXCEPT !.pc = "done", !.result = checked]
                         ELSE [@ EXCEPT !.pc = "set",
                                        !.local = get_nonce(nonce_of, c.delegator)]]
        /\ UNCHANGED <<ledger, now, calls, acceptedStatements, castVotes>>

\* apply_delegation_signature, line 130: _set_delegate (lines 133-143)
ApplySet ==
    \E i \in {1, 2} :
        /\ last.op = "concurrent"
        /\ last.threads[i].call.op = "apply_delegation_signature"
        /\ last.threads[i].pc = "set"
        /\ LET c == last.threads[i].call
               sd == set_delegate(delegate_of, c.delegator, c.delegatee)
           IN /\ delegate_of' = sd.delegate_of
              /\ last' = [last EXCEPT !.threads[i] =
                            IF sd.ok
                            THEN [@ EXCEPT !.pc = "advance"]
                            ELSE [@ EXCEPT !.pc = "done", !.result = "CycleDetected"]]
        /\ UNCHANGED <<voter_weight, nonce_of, proposals, now, calls,
                       acceptedStatements, castVotes>>

\* apply_delegation_signature, line 131: nonce_of[delegator] = expected_nonce + 1
ApplyAdvance ==
    \E i \in {1, 2} :
        /\ last.op = "concurrent"
        /\ last.threads[i].call.op = "apply_delegation_signature"
        /\ last.threads[i].pc = "advance"
        /\ LET c == last.threads[i].call
           IN /\ nonce_of' = advance_nonce(nonce_of, c.delegator, last.threads[i].local)
              /\ acceptedStatements' = acceptedStatements \cup {<<c.delegator, c.nonce>>}
        /\ last' = [last EXCEPT !.threads[i].pc = "done", !.threads[i].result = "ok"]
        /\ UNCHANGED <<voter_weight, delegate_of, proposals, now, calls, castVotes>>

\* both callers have their result
ConcurrentReturn ==
    /\ last.op = "concurrent"
    /\ BothDone
    /\ last' = Idle
    /\ UNCHANGED <<ledger, now, calls, acceptedStatements, castVotes>>

NextConcurrent ==
    \/ Tick
    \/ SequentialReturn
    \/ ElectionAddVoter
    \/ ElectionCreateProposal
    \/ BeginConcurrent
    \/ VoteCheck
    \/ VoteTally
    \/ VoteMark
    \/ ApplyCheck
    \/ ApplySet
    \/ ApplyAdvance
    \/ ConcurrentReturn

SpecConcurrent == Init /\ [][NextConcurrent]_vars

\* ================================================================ properties

\* a step that is one call of the ledger: it starts with no call in flight
\* and ends with the call and its result recorded in last
IsCall == last = Idle /\ last' # Idle

IsApply == IsCall /\ last'.op = "apply_delegation_signature"

IsVote == IsCall /\ last'.op = "vote"

\* the update of the step passes the deadline, nonce and signer checks
Authenticated ==
    /\ IsApply
    /\ now <= last'.deadline
    /\ last'.nonce = Get(nonce_of, last'.delegator, 0)
    /\ last'.signer = last'.delegator
    /\ last'.sameStatement

\* addresses reached from the set frontier by following at most k more edges
RECURSIVE Reach(_, _, _)
Reach(dg, frontier, k) ==
    IF k = 0 THEN frontier
    ELSE Reach(dg, frontier \cup {dg[x] : x \in frontier \cap DOMAIN dg}, k - 1)

\* addresses reached from a by following zero or more edges
ReachableFrom(dg, a) == Reach(dg, {a}, Cardinality(Addresses))

Acyclic(dg) == \A a \in DOMAIN dg : a \notin ReachableFrom(dg, dg[a])

RECURSIVE SumOver(_, _)
SumOver(d, keys) ==
    IF keys = {} THEN 0
    ELSE LET k == CHOOSE x \in keys : TRUE IN d[k] + SumOver(d, keys \ {k})

SumValues(d) == SumOver(d, DOMAIN d)

\* C1: in every reachable state the delegation edges are acyclic, and
\* resolving any address follows at most N edges (N = number of addresses)
\* and ends at an address without outgoing edge.
C1_AcyclicAndResolveBounded ==
    /\ Acyclic(delegate_of)
    /\ \A a \in Addresses :
          /\ ResolveSteps(delegate_of, a) <= Cardinality(Addresses)
          /\ resolve_final_delegate(delegate_of, a) \notin DOMAIN delegate_of

C1_Witness ==
    /\ last.op = "apply_delegation_signature"
    /\ last.result = "CycleDetected"
    /\ Cardinality(DOMAIN delegate_of) = 2
    /\ \E a \in Addresses : ResolveSteps(delegate_of, a) = 2

\* C2: an accepted delegation update of delegator d raises currentNonce(d)
\* by exactly 1 and leaves the nonce of every other address as it was.
C2_NonceAdvancesByOne ==
    [][(IsApply /\ last'.result = "ok") =>
          /\ get_nonce(nonce_of', last'.delegator) = get_nonce(nonce_of, last'.delegator) + 1
          /\ \A a \in Addresses \ {last'.delegator} :
                /\ get_nonce(nonce_of', a) = get_nonce(nonce_of, a)
                /\ (a \in DOMAIN nonce_of') = (a \in DOMAIN nonce_of)]_vars

C2_Witness ==
    /\ last.op = "apply_delegation_signature"
    /\ last.result = "ok"
    /\ last.nonce = 1
    /\ nonce_of[last.delegator] = 2
    /\ \E a \in Addresses \ {last.delegator} : a \in DOMAIN nonce_of /\ nonce_of[a] = 1

\* the update of the step restates an accepted statement of its delegator,
\* or carries a nonce no greater than one already accepted for it
IsReplay ==
    /\ IsApply
    /\ \E st \in acceptedStatements : st[1] = last'.delegator /\ last'.nonce <= st[2]

\* C3 as stated: every replay is rejected with NonceMismatch and changes no state.
C3_ReplayIsNonceMismatch ==
    [][IsReplay => (last'.result = "NonceMismatch" /\ UNCHANGED ledger)]_vars

\* C3 (amended): every replay is rejected and changes no state; the error is
\* Expired when the current time is past the statement's deadline and
\* NonceMismatch otherwise.
C3_ReplayRejected ==
    [][IsReplay =>
          /\ last'.result = (IF now > last'.deadline THEN "Expired" ELSE "NonceMismatch")
          /\ UNCHANGED ledger]_vars

C3_Witness ==
    /\ last.op = "apply_delegation_signature"
    /\ last.result = "NonceMismatch"
    /\ <<last.delegator, last.nonce>> \in acceptedStatements
    /\ last.signer = last.delegator
    /\ last.sameStatement

\* C4: the values of the effective power map sum to the sum of the positive
\* voter weights.
C4_WeightConservation ==
    SumValues(get_effective_voting_power_map(voter_weight, delegate_of))
        = SumOver(voter_weight, {v \in DOMAIN voter_weight : voter_weight[v] > 0})

C4_Witness ==
    /\ \E v \in DOMAIN voter_weight : voter_weight[v] = 0
    /\ \E h \in DOMAIN get_effective_voting_power_map(voter_weight, delegate_of) :
          /\ get_effective_voting_power_map(voter_weight, delegate_of)[h] = 150
          /\ Get(voter_weight, h, 0) = 50
    /\ delegate_of # EmptyDict

\* C5: a failing call leaves weights, edges, nonces and proposals as they
\* were; a delegation update changes the edges only together with the nonce
\* advance, and the nonce only when the requested edge is in place.
C5_AllOrNothing ==
    [][/\ (IsCall /\ last'.result # "ok") => UNCHANGED ledger
       /\ IsApply =>
            /\ (delegate_of' # delegate_of) => (nonce_of' # nonce_of)
            /\ (nonce_of' # nonce_of) =>
                  /\ last'.result = "ok"
                  /\ Get(delegate_of', last'.delegator, last'.delegator) = last'.delegatee]_vars

C5_Witness ==
    /\ last.op = "apply_delegation_signature"
    /\ last.result = "CycleDetected"
    /\ proposals # EmptyDict
    /\ voter_weight # EmptyDict

\* the scenario of C6: A (weight 100) has delegated to B (weight 50) by an
\* accepted update, and these are the only voters and the only edge
ScenarioAB ==
    /\ voter_weight = [a \in {"A", "B"} |-> IF a = "A" THEN 100 ELSE 50]
    /\ delegate_of = [a \in {"A"} |-> "B"]
    /\ \E st \in acceptedStatements : st[1] = "A"

\* C6 as stated: in the scenario effectivePower(B) = 150 and effectivePower(A) = 0.
C6_DelegatorReportsZero ==
    ScenarioAB =>
        /\ get_effective_voting_power(voter_weight, delegate_of, "B") = 150
        /\ get_effective_voting_power(voter_weight, delegate_of, "A") = 0

\* C6 (amended): in the scenario effectivePower(B) = 150, and effectivePower(A)
\* = 150 as well, since the query resolves A to its final delegate B; the
\* power map has the single bucket B: 150 and no bucket for A.
C6_DelegatorReportsHolderPower ==
    ScenarioAB =>
        /\ get_effective_voting_power(voter_weight, delegate_of, "B") = 150
        /\ get_effective_voting_power(voter_weight, delegate_of, "A") = 150
        /\ get_effective_voting_power_map(voter_weight, delegate_of) = [a \in {"B"} |-> 150]

C6_Witness ==
    /\ ScenarioAB
    /\ last.op = "apply_delegation_signature"
    /\ last.result = "ok"
    /\ last.delegator = "A"
    /\ last.delegatee = "B"

\* C7: a vote of an address with an outgoing edge on a known, open proposal
\* with a valid choice is rejected with DelegatedVoterCannotVote and changes
\* no proposal; an accepted vote is cast by an address without outgoing edge.
C7_DelegatedVoterRejected ==
    [][IsVote =>
          /\ ( /\ last'.proposal_id \in DOMAIN proposals
               /\ last'.choice \in {"yes", "no", "abstain"}
               /\ now <= proposals[last'.proposal_id].closes_at
               /\ last'.voter \in DOMAIN delegate_of )
             => (last'.result = "DelegatedVoterCannotVote" /\ proposals' = proposals)
          /\ (last'.result = "ok") => (last'.voter \notin DOMAIN delegate_of)]_vars

C7_Witness ==
    /\ last.op = "vote"
    /\ last.result = "DelegatedVoterCannotVote"
    /\ Get(voter_weight, last.voter, 0) > 0

\* C8: an authenticated update delegator -> delegatee between two different
\* addresses is rejected with CycleDetected exactly when delegator is
\* reachable from delegatee along the existing edges; then edges and nonces
\* stay as they were; otherwise the edge is committed over any prior edge.
C8_CycleDetectedIffReachable ==
    [][(Authenticated /\ last'.delegator # last'.delegatee) =>
          /\ (last'.result = "CycleDetected")
                = (last'.delegator \in ReachableFrom(delegate_of, last'.delegatee))
          /\ (last'.result = "CycleDetected") => UNCHANGED <<delegate_of, nonce_of>>
          /\ (last'.result # "CycleDetected") =>
                /\ last'.result = "ok"
                /\ delegate_of' = Put(delegate_of, last'.delegator, last'.delegatee)]_vars

C8_Witness ==
    /\ last.op = "apply_delegation_signature"
    /\ last.result = "CycleDetected"
    /\ last.delegatee \in DOMAIN delegate_of
    /\ delegate_of[last.delegatee] # last.delegator

\* C9: an authenticated self-delegation succeeds in every reachable graph: it
\* removes the delegator's outgoing edge, changes no other edge, makes the
\* delegator its own final delegate and advances its nonce by 1.
C9_SelfDelegationSucceeds ==
    [][(Authenticated /\ last'.delegator = last'.delegatee) =>
          /\ last'.result = "ok"
          /\ delegate_of' = Pop(delegate_of, last'.delegator)
          /\ resolve_final_delegate(delegate_of', last'.delegator) = last'.delegator
          /\ get_nonce(nonce_of', last'.delegator)
                = get_nonce(nonce_of, last'.delegator) + 1]_vars

C9_Witness ==
    /\ last.op = "apply_delegation_signature"
    /\ last.result = "ok"
    /\ last.delegator = last.delegatee
    /\ last.prior # "none"
    /\ delegate_of # EmptyDict

\* the voted-sets of the proposals only grow, and no proposal disappears
VotedSetsGrow ==
    \A p \in DOMAIN proposals :
        p \in DOMAIN proposals' /\ proposals[p].voted \subseteq proposals'[p].voted

\* the vote of the step comes from an address that already cast an accepted
\* vote on the same proposal
IsSecondVote == IsVote /\ <<last'.proposal_id, last'.voter>> \in castVotes

IsCreate == IsCall /\ last'.op = "create_proposal"

\* the signer recovered for the update of the step is not its stated delegator
\* (another account signed it, or the signature is over another statement)
WrongSigner ==
    /\ IsApply
    /\ last'.signer # "none"
    /\ (last'.signer # last'.delegator \/ ~last'.sameStatement)

\* the outgoing edge or the nonce of some address changes only in an update
\* stating that address as delegator and carrying its own signature
OnlyOwnSignatureChanges ==
    \A d \in Addresses :
        ( \/ Get(delegate_of', d, d) # Get(delegate_of, d, d)
          \/ get_nonce(nonce_of', d) # get_nonce(nonce_of, d) )
        => ( /\ IsCall
             /\ last'.op = "apply_delegation_signature"
             /\ last'.delegator = d
             /\ last'.signer = d
             /\ last'.sameStatement )

\* C11 as stated: every update whose recovered signer differs from the stated
\* delegator is rejected with NotDelegator and changes neither edges nor nonces,
\* and only d's own signature moves d's edge or nonce.
C11_WrongSignerIsNotDelegator ==
    [][/\ WrongSigner =>
            (last'.result = "NotDelegator" /\ UNCHANGED <<delegate_of, nonce_of>>)
       /\ OnlyOwnSignatureChanges]_vars

\* C11 (amended): such an update is always rejected and changes neither edges
\* nor nonces; the error is NotDelegator when the update passes the deadline
\* and nonce checks, Expired or NonceMismatch when one of those fails first;
\* only d's own signature moves d's edge or nonce.
C11_WrongSignerRejected ==
    [][/\ WrongSigner =>
            /\ UNCHANGED <<delegate_of, nonce_of>>
            /\ last'.result =
                  (IF now > last'.deadline THEN "Expired"
                   ELSE IF last'.nonce # get_nonce(nonce_of, last'.delegator)
                        THEN "NonceMismatch"
                        ELSE "NotDelegator")
       /\ OnlyOwnSignatureChanges]_vars

C11_Witness ==
    /\ last.op = "apply_delegation_signature"
    /\ last.result = "NotDelegator"
    /\ last.signer = last.delegatee
    /\ last.sameStatement
    /\ last.prior # "none"

\* C12: create_proposal fails with DuplicateProposal when the id exists, else
\* with InvalidClosingTime when closes_at <= now, both leaving the proposals
\* as they were; otherwise it stores the proposal with zero tallies and an
\* empty voted-set, and the proposal is open at the creation time.
C12_CreateProposal ==
    [][IsCreate =>
          LET id == last'.proposal_id
          IN /\ (id \in DOMAIN proposals) =>
                   (last'.result = "DuplicateProposal" /\ proposals' = proposals)
             /\ (id \notin DOMAIN proposals /\ last'.closes_at <= now) =>
                   (last'.result = "InvalidClosingTime" /\ proposals' = proposals)
             /\ (id \notin DOMAIN proposals /\ last'.closes_at > now) =>
                   /\ last'.result = "ok"
                   /\ DOMAIN proposals' = DOMAIN proposals \cup {id}
                   /\ \A p \in DOMAIN proposals : proposals'[p] = proposals[p]
                   /\ proposals'[id].closes_at = last'.closes_at
                   /\ get_results(proposals', id) = [c \in {"yes", "no", "abstain"} |-> 0]
                   /\ proposals'[id].voted = {}
                   /\ is_open(proposals', now, id)]_vars

C12_Witness ==
    /\ last.op = "create_proposal"
    /\ last.result = "DuplicateProposal"
    /\ proposals[last.proposal_id].voted # {}
    /\ last.closes_at > now

\* the tallies of a proposal whose closing time has passed stay as they are
ClosedResultsFrozen ==
    \A p \in DOMAIN proposals :
        (now > proposals[p].closes_at) =>
            (p \in DOMAIN proposals' /\ get_results(proposals', p) = get_results(proposals, p))

\* C13 as stated: once now > closes_at every vote on P fails with VotingClosed
\* and the results never change; is_open(P) is false exactly when a vote
\* fails with VotingClosed.
C13_EveryLateVoteIsVotingClosed ==
    [][/\ (IsVote /\ last'.proposal_id \in DOMAIN proposals) =>
            (last'.result = "VotingClosed") = ~is_open(proposals, now, last'.proposal_id)
       /\ ClosedResultsFrozen]_vars

\* C13 (amended): once now > closes_at every vote on P with a valid choice
\* fails with VotingClosed (one with an invalid choice fails with
\* InvalidChoice) and the results never change; for a valid choice is_open(P)
\* is false exactly when the vote fails with VotingClosed, and a vote at
\* now = closes_at is not closed.
C13_LateVoteRejected ==
    [][/\ (IsVote /\ last'.proposal_id \in DOMAIN proposals) =>
            /\ last'.result # "ok" \/ is_open(proposals, now, last'.proposal_id)
            /\ (last'.choice \in {"yes", "no", "abstain"}) =>
                  /\ (last'.result = "VotingClosed")
                        = ~is_open(proposals, now, last'.proposal_id)
                  /\ (last'.result = "VotingClosed")
                        = (now > proposals[last'.proposal_id].closes_at)
            /\ (last'.choice \notin {"yes", "no", "abstain"}) =>
                  last'.result = "InvalidChoice"
       /\ ClosedResultsFrozen]_vars

C13_Witness ==
    /\ last.op = "vote"
    /\ last.result = "VotingClosed"
    /\ proposals[last.proposal_id].voted # {}
    /\ Get(voter_weight, last.voter, 0) > 0

\* C15: a delegation update is rejected with Expired exactly when the current
\* time is strictly greater than its deadline, whatever its nonce and signer;
\* at now = deadline it is not rejected as Expired.
C15_ExpiredIffPastDeadline ==
    [][IsApply => (last'.result = "Expired") = (now > last'.deadline)]_vars

C15_Witness ==
    /\ last.op = "apply_delegation_signature"
    /\ last.result = "Expired"
    /\ last.nonce # get_nonce(nonce_of, last.delegator)
    /\ last.signer # last.delegator

\* the address without outgoing edge at the end of the chain of edges from a
RECURSIVE Follow(_, _, _)
Follow(dg, a, k) ==
    IF a \notin DOMAIN dg \/ k = 0 THEN a ELSE Follow(dg, dg[a], k - 1)

FinalHolder(dg, a) == Follow(dg, a, Cardinality(Addresses))

\* the summed weight of the voters whose chain ends where the chain of a ends
HolderWeight(vw, dg, a) ==
    LET h == FinalHolder(dg, a)
    IN SumOver(vw, {v \in DOMAIN vw : FinalHolder(dg, v) = h})

\* C16: effectivePower(a) is the bucket of a's final delegate in the power
\* map, 0 when there is none - the summed weight of the voters resolving to
\* that delegate - and equals effectivePower(resolveFinalDelegate(a)).
\* The query is a call of its own, made when no other call is in flight;
\* Return leaves the ledger as it is, so these are all the ledgers there are.
C16_PowerOfFinalDelegate ==
    last = Idle =>
        LET m == get_effective_voting_power_map(voter_weight, delegate_of)
        IN \A a \in Addresses :
              LET f == resolve_final_delegate(delegate_of, a)
                  p == get_effective_voting_power(voter_weight, delegate_of, a)
              IN /\ p = (IF f \in DOMAIN m THEN m[f] ELSE 0)
                 /\ p = HolderWeight(voter_weight, delegate_of, a)
                 /\ p = get_effective_voting_power(voter_weight, delegate_of, f)

C16_Witness ==
    \E a \in Addresses :
        /\ last = Idle
        /\ ResolveSteps(delegate_of, a) = 2
        /\ get_effective_voting_power(voter_weight, delegate_of, a) = 150

\* C19: no nonce ever decreases; add_voter leaves the nonce of an address that
\* has an entry as it is, gives 0 to one that has none, and changes neither
\* edges nor proposals.
C19_NonceNeverDecreases ==
    [][/\ \A a \in Addresses : get_nonce(nonce_of', a) >= get_nonce(nonce_of, a)
       /\ (IsCall /\ last'.op = "add_voter") =>
            /\ UNCHANGED <<delegate_of, proposals>>
            /\ \A a \in DOMAIN nonce_of : a \in DOMAIN nonce_of' /\ nonce_of'[a] = nonce_of[a]
            /\ \A a \in DOMAIN nonce_of' \ DOMAIN nonce_of :
                  a = last'.address /\ nonce_of'[a] = 0]_vars

C19_Witness ==
    /\ last.op = "add_voter"
    /\ last.result = "ok"
    /\ Get(nonce_of, last.address, 0) = 2
    /\ last.address \in DOMAIN delegate_of

\* C20: every key of the power map is an address without outgoing edge, equal
\* to its own final delegate, every value is strictly positive, and the keys
\* are exactly the final delegates of the voters of positive weight.
C20_BucketsArePositiveFinalHolders ==
    LET m == get_effective_voting_power_map(voter_weight, delegate_of)
    IN /\ \A h \in DOMAIN m :
             /\ h \notin DOMAIN delegate_of
             /\ resolve_final_delegate(delegate_of, h) = h
             /\ m[h] > 0
       /\ DOMAIN m = {FinalHolder(delegate_of, v) :
                         v \in {u \in DOMAIN voter_weight : voter_weight[u] > 0}}

C20_Witness ==
    LET m == get_effective_voting_power_map(voter_weight, delegate_of)
    IN /\ \E v \in DOMAIN voter_weight :
             voter_weight[v] = 0 /\ v \notin DOMAIN delegate_of /\ v \notin DOMAIN m
       /\ \E h \in DOMAIN m : h \notin DOMAIN voter_weight

\* C14: an accepted vote of final holder f adds effectivePower(f), taken on
\* the state of the call, to the tally of its choice, leaves the other two
\* tallies as they are, adds f to the voted-set and returns that power and the
\* new tallies; the power is > 0, and a vote that passes the other checks
\* with power <= 0 fails with NoVotingPower. With A (100) delegating to B (50),
\* B's first vote yes on an open proposal gives {yes: 150, no: 0, abstain: 0}.
C14_VoteAddsEffectivePower ==
    [][IsVote =>
          LET id == last'.proposal_id
              f == last'.voter
              c == last'.choice
              p == get_effective_voting_power(voter_weight, delegate_of, f)
              passes == /\ id \in DOMAIN proposals
                        /\ c \in {"yes", "no", "abstain"}
                        /\ now <= proposals[id].closes_at
                        /\ f \notin DOMAIN delegate_of
                        /\ f \notin proposals[id].voted
          IN /\ (last'.result = "ok") = (passes /\ p > 0)
             /\ (last'.result = "NoVotingPower") = (passes /\ p <= 0)
             /\ (last'.result = "ok") =>
                   /\ get_results(proposals', id)[c] = get_results(proposals, id)[c] + p
                   /\ \A o \in {"yes", "no", "abstain"} \ {c} :
                         get_results(proposals', id)[o] = get_results(proposals, id)[o]
                   /\ proposals'[id].voted = proposals[id].voted \cup {f}
                   /\ proposals'[id].closes_at = proposals[id].closes_at
                   /\ last'.weight = p
                   /\ last'.snapshot = get_results(proposals', id)
             /\ (ScenarioAB /\ passes /\ f = "B" /\ c = "yes"
                    /\ get_results(proposals, id) = ZeroTallies) =>
                   /\ last'.result = "ok"
                   /\ get_results(proposals', id)
                         = [o \in {"yes", "no", "abstain"} |-> IF o = "yes" THEN 150 ELSE 0]]_vars

C14_Witness ==
    /\ ScenarioAB
    /\ last.op = "vote"
    /\ last.result = "ok"
    /\ last.voter = "B"
    /\ last.choice = "yes"
    /\ last.weight = 150
    /\ last.snapshot = [o \in {"yes", "no", "abstain"} |-> IF o = "yes" THEN 150 ELSE 0]

\* C18: with the weights fixed while the proposal exists, the tallies of a
\* proposal never sum to more than the voters' own weights together.
C18_TalliesWithinTotalWeight ==
    \A id \in DOMAIN proposals :
        SumValues(get_results(proposals, id)) <= SumValues(voter_weight)

\* one call run as a whole on ledger L at time t
RunCall(L, t, c) ==
    IF c.op = "vote"
    THEN LET r == vote(L.proposals, L.voter_weight, L.delegate_of, t,
                       c.proposal_id, c.voter, c.choice)
         IN [ledger |-> [L EXCEPT !.proposals = r.proposals], result |-> r.result]
    ELSE LET msg == DelegationMessage(c.delegator, c.delegatee, c.nonce, c.deadline)
             r == apply_delegation_signature(L.delegate_of, L.nonce_of, t,
                                             Sign(c.delegator, msg), c.delegator,
                                             c.delegatee, c.nonce, c.deadline)
         IN [ledger |-> [L EXCEPT !.delegate_of = r.delegate_of, !.nonce_of = r.nonce_of],
             result |-> r.result]

\* the ledger and the two results after c1 and c2 run one after the other,
\* in both orders
SequentialOutcomes(L, t, c1, c2) ==
    LET a1 == RunCall(L, t, c1)
        a2 == RunCall(a1.ledger, t, c2)
        b2 == RunCall(L, t, c2)
        b1 == RunCall(b2.ledger, t, c1)
    IN {<<a2.ledger, a1.result, a2.result>>, <<b1.ledger, b1.result, b2.result>>}

\* C17: two calls that run at the same time leave the ledger, and hand their
\* callers the results, of the same two calls run one after the other in some
\* order.
C17_ConcurrentCallsAreAtomic ==
    (last.op = "concurrent" /\ BothDone) =>
        <<LedgerRecord, last.threads[1].result, last.threads[2].result>>
            \in SequentialOutcomes(last.start, now,
                                   last.threads[1].call, last.threads[2].call)

====
